---- MODULE Spec2Model ----
(***************************************************************************)
(* A model of the Helix command line tool (voilajsx/helix).                *)
(*                                                                         *)
(* Two scripts of the repository are modelled: bin/helix.js, the packaged  *)
(* CLI, and the earlier CLI script kept beside it (src/unnamed/part_011),  *)
(* whose create command still runs the external generators and the         *)
(* manifest merge.  The variable "script" says which of the two runs.      *)
(*                                                                         *)
(* JavaScript values are modelled as follows.  A JSON object (a manifest,  *)
(* a dependency map, a script map) is a function whose domain is the set   *)
(* of its own keys; an absent key is a key outside the domain.  A JSON     *)
(* string is a string, a JSON array of strings a sequence.  Keys are       *)
(* ordinary package / script names (never a property name inherited from   *)
(* Object.prototype), and the order of an object's keys is not modelled.   *)
(***************************************************************************)
EXTENDS Integers, Sequences, FiniteSets, TLC

VARIABLES
    script,     \* which CLI script runs: "helix" (bin/helix.js) or "legacy" (part_011)
    argv,       \* process.argv from index 2 on
    pc,         \* position of the script
    child,      \* the child process execSync waits for, or "none"
    exitCode,   \* the exit code of the process, -1 while it runs
    stdout,     \* messages written with console.log, in order
    stderr,     \* messages written with console.error, in order
    calls,      \* the commands handed to execSync, in order
    steps,      \* the steps of create that have started, in order
    cwd,        \* "launch" (where the CLI was started) or "project" (after chdir)
    projDir,    \* TRUE iff the path named by projectName exists
    pkgFile,    \* ./package.json of the directory being generated
    pkgFile0,   \* ./package.json as it was when the merge started
    tplFile,    \* templates/package.json, the Helix template manifest
    envFile,    \* ./.env of the directory being generated
    srcUtils,   \* ./src/utils: "absent", "empty" or "nonempty"
    overlay,    \* TRUE iff the template tree has been copied over the project
    dist,       \* which build outputs exist under ./dist
    failed,     \* the steps that have raised an error
    fs0,        \* the files and directories as they were when the script started
    tmpl,       \* the listing of templates/<templateType>, the template tree
    launchDir,  \* process.cwd() when the script started
    tree,       \* what the working directory holds besides ./package.json
    ops,        \* the file system operations of the template walk, in order
    before      \* the working directory as it was when the template walk started

vars == <<script, argv, pc, child, exitCode, stdout, stderr, calls, steps, cwd,
          projDir, pkgFile, pkgFile0, tplFile, envFile, srcUtils, overlay, dist,
          failed, fs0, tmpl, launchDir, tree, ops, before>>

----------------------------------------------------------------------------
(* Bounds of the model *)

\* number of distinct package names a dependency map may mention
MaxDeps == 2
\* number of command line arguments after the script name
MaxArgs == 4

----------------------------------------------------------------------------
(* JavaScript values *)

\* {} : the object without keys
EmptyObj == <<>>

\* obj[key] = value
Put(obj, key, value) ==
    [k \in (DOMAIN obj) \cup {key} |-> IF k = key THEN value ELSE obj[k]]

\* !obj[key] where obj[key], if present, is a string: undefined and "" are falsy
FalsyString(obj, key) == key \notin DOMAIN obj \/ obj[key] = ""

\* !obj[key] where obj[key], if present, is an object or an array (always truthy)
FalsyObject(obj, key) == key \notin DOMAIN obj

\* obj[key] || {}
OrEmpty(obj, key) == IF FalsyObject(obj, key) THEN EmptyObj ELSE obj[key]

\* array.includes(item)
Includes(array, item) == \E i \in 1..Len(array) : array[i] = item

----------------------------------------------------------------------------
(* The manifest merge: mergeHelixPackageJson and convertToESM *)

FullstackDescription ==
    "Full-stack FBCA application with UIKit frontend and AppKit backend"

\* convertToESM: type becomes "module" if it is falsy or "commonjs"
convertToESM(packageObj) ==
    IF FalsyString(packageObj, "type") \/ packageObj["type"] = "commonjs"
    THEN Put(packageObj, "type", "module")
    ELSE packageObj

\* if (!existingPackage.<field>) existingPackage.<field> = {} (or [])
EnsureContainer(existingPackage, field, empty) ==
    IF FalsyObject(existingPackage, field)
    THEN Put(existingPackage, field, empty)
    ELSE existingPackage

MergeMissing_NoInsert(existing, template, todo) == existing

\* for (const [dep, version] of Object.entries(template))
\*   if (!existing[dep]) existing[dep] = version;
\* todo is the set of template entries the loop has not visited yet.
RECURSIVE MergeMissing(_, _, _)
MergeMissing(existing, template, todo) ==
    IF todo = {} THEN existing
    ELSE LET dep == CHOOSE d \in todo : TRUE
             next == IF FalsyString(existing, dep)
                     THEN Put(existing, dep, template[dep])
                     ELSE existing
         IN  MergeMissing(next, template, todo \ {dep})

RECURSIVE OverrideScripts_KeepExisting(_, _, _)
OverrideScripts_KeepExisting(existing, template, todo) ==
    IF todo = {} THEN existing
    ELSE LET scr == CHOOSE s \in todo : TRUE
             next == IF scr \in DOMAIN existing THEN existing
                     ELSE Put(existing, scr, template[scr])
         IN  OverrideScripts_KeepExisting(next, template, todo \ {scr})

\* existing.scripts = template.scripts: the destination's own scripts are lost
OverrideScripts_Replace(existing, template, todo) == template

\* for (const [script, command] of Object.entries(template))
\*   existing[script] = command;
RECURSIVE OverrideScripts(_, _, _)
OverrideScripts(existing, template, todo) ==
    IF todo = {} THEN existing
    ELSE LET scr == CHOOSE s \in todo : TRUE
         IN  OverrideScripts(Put(existing, scr, template[scr]),
                             template, todo \ {scr})

\* keywords.push('helix') without the includes test
AddHelixKeyword_Always(keywords) == Append(keywords, "helix")

\* if (!keywords.includes('helix')) keywords.push('helix')
AddHelixKeyword(keywords) ==
    IF Includes(keywords, "helix") THEN keywords ELSE Append(keywords, "helix")

\* The object mergeHelixPackageJson writes, given the two parsed manifests.
MergedPackage(parsedPackage, helixTemplate) ==
    LET p1 == convertToESM(parsedPackage)
        p2 == EnsureContainer(p1, "dependencies", EmptyObj)
        p3 == EnsureContainer(p2, "devDependencies", EmptyObj)
        t1 == OrEmpty(helixTemplate, "dependencies")
        p4 == Put(p3, "dependencies",
                  MergeMissing(p3["dependencies"], t1, DOMAIN t1))
        t2 == OrEmpty(helixTemplate, "devDependencies")
        p5 == Put(p4, "devDependencies",
                  MergeMissing(p4["devDependencies"], t2, DOMAIN t2))
        p6 == EnsureContainer(p5, "scripts", EmptyObj)
        t3 == OrEmpty(helixTemplate, "scripts")
        p7 == Put(p6, "scripts", OverrideScripts(p6["scripts"], t3, DOMAIN t3))
        p8 == Put(p7, "description", FullstackDescription)
        p9 == EnsureContainer(p8, "keywords", <<>>)
    IN  Put(p9, "keywords", AddHelixKeyword(p9["keywords"]))

----------------------------------------------------------------------------
(* Files *)

\* a file holding the JSON text of value
JsonFile(value) == [kind |-> "json", value |-> value]
\* a file whose text JSON.parse rejects
MalformedFile == [kind |-> "malformed"]
\* no such file: readFileSync throws
NoFile == [kind |-> "absent"]

\* JSON.parse(readFileSync(path, 'utf8')) returns normally
Parses(file) == file.kind = "json"

----------------------------------------------------------------------------
(* The manifests the model draws its inputs from *)

PackageNames == <<"react", "express", "vite", "cors">>
DepKeys == {PackageNames[i] : i \in 1..MaxDeps}
\* version strings of a destination manifest; "" is a JSON string as well
DestVersions == {"", "18.0.0"}
TemplateVersions == {"17.0.0"}
ScriptKeys == {"dev", "build"}
DestCommands == {"", "old"}
TemplateCommands == {"new"}
\* values of the type field of a destination manifest
DestTypes == {"", "commonjs", "module", "typescript"}
DestDescriptions == {"A UIKit app"}
DestKeywords == {<<>>, <<"react">>, <<"helix", "react">>, <<"helix", "helix">>}

\* all objects with keys among K and values among V
Objects(K, V) == UNION {[S -> V] : S \in SUBSET K}

\* <<>> for "no such field", <<v>> for a field holding v
Optional(S) == {<<>>} \cup {<<v>> : v \in S}

\* the manifest with the identity fields and the given optional fields
Manifest(type, dependencies, devDependencies, scripts, description, keywords) ==
    LET fields == {"name", "version"}
                    \cup (IF type = <<>> THEN {} ELSE {"type"})
                    \cup (IF dependencies = <<>> THEN {} ELSE {"dependencies"})
                    \cup (IF devDependencies = <<>> THEN {} ELSE {"devDependencies"})
                    \cup (IF scripts = <<>> THEN {} ELSE {"scripts"})
                    \cup (IF description = <<>> THEN {} ELSE {"description"})
                    \cup (IF keywords = <<>> THEN {} ELSE {"keywords"})
    IN  [f \in fields |->
            CASE f = "name" -> "my-app"
              [] f = "version" -> "0.1.0"
              [] f = "type" -> type[1]
              [] f = "dependencies" -> dependencies[1]
              [] f = "devDependencies" -> devDependencies[1]
              [] f = "scripts" -> scripts[1]
              [] f = "description" -> description[1]
              [] f = "keywords" -> keywords[1]]

\* Destination manifests: every combination of the two dependency maps with
\* the other fields fixed, and every combination of the other fields with
\* the dependency maps fixed.
DestManifests ==
    {Manifest(<<"commonjs">>, d, dd, <<>>, <<>>, <<>>) :
        d \in Optional(Objects(DepKeys, DestVersions)),
        dd \in Optional(Objects(DepKeys, DestVersions))}
    \cup
    {Manifest(t, <<[react |-> "18.0.0"]>>, <<>>, s, ds, kw) :
        t \in Optional(DestTypes),
        s \in Optional(Objects(ScriptKeys, DestCommands)),
        ds \in Optional(DestDescriptions),
        kw \in Optional(DestKeywords)}

TemplateManifests ==
    {Manifest(<<"module">>, d, dd, <<[dev |-> "new"]>>, <<>>, <<>>) :
        d \in Optional(Objects(DepKeys, TemplateVersions)),
        dd \in Optional(Objects(DepKeys, TemplateVersions))}
    \cup
    {Manifest(<<"module">>, <<[express |-> "4.0.0"]>>, <<>>, s, <<>>, <<>>) :
        s \in Optional(Objects(ScriptKeys, TemplateCommands))}

----------------------------------------------------------------------------
(* Command line arguments *)

\* what the i-th argument may be
ArgTokens(i) ==
    CASE i = 1 -> {"create", "start", "deploy"}
      [] i = 2 -> {"my-app", ".", "--verbose"}
      [] i = 3 -> {"basicapp", "userapp", "todoapp", "angular", "--verbose"}
      [] OTHER -> {"--verbose"}

RECURSIVE ArgvsOfLen(_)
ArgvsOfLen(n) ==
    IF n = 0 THEN {<<>>}
    ELSE {Append(a, t) : a \in ArgvsOfLen(n - 1), t \in ArgTokens(n)}

Argvs == UNION {ArgvsOfLen(n) : n \in 0..MaxArgs}

\* process.argv[i + 1]; a missing argument (undefined) is modelled as "",
\* which every test of the script treats like undefined
Arg(i) == IF i <= Len(argv) THEN argv[i] ELSE ""

command == Arg(1)
projectName == Arg(2)
\* process.argv[4] || 'basicapp'
templateType == IF Arg(3) = "" THEN "basicapp" ELSE Arg(3)
\* process.argv.includes('--verbose')
verbose == Includes(argv, "--verbose")
isCurrentDir == projectName = "."

validTemplates == {"basicapp", "welcomeapp", "userapp", "todoapp"}
\* the template directories that exist under templates/
PackagedTemplates == {"basicapp", "userapp"}

----------------------------------------------------------------------------
(* Template text and placeholder substitution: processTemplateFile.         *)
(*                                                                          *)
(* A text (a file's content, a project name, a path) is a sequence of       *)
(* lexical units.  A placeholder token such as {{PROJECT_NAME}} is one      *)
(* unit; so is each replacement pattern of String.prototype.replace ($$,    *)
(* $&, $` and $') and each path separator ("/", and "\" in a Windows path). *)
(* Every other unit is a piece of text that contains none of these.         *)

\* length of a template file's text, in units
MaxText == 2

\* F applied to the value of x: the statement after x has been computed
Bind(x, F(_)) == CHOOSE r \in {F(v) : v \in {x}} : TRUE

\* s1 followed by s2 ... : the concatenation of a sequence of texts
RECURSIVE Concat(_)
Concat(texts) ==
    IF texts = <<>> THEN <<>> ELSE Head(texts) \o Concat(Tail(texts))

\* the text that String.prototype.replace inserts for one match, given the
\* replacement string: $$ is "$", $& the matched text, $` the text preceding the
\* match and $' the text following it
GetSubstitution(replacement, matched, preceding, following) ==
    Concat([i \in 1..Len(replacement) |->
        CASE replacement[i] = "$$" -> <<"$">>
          [] replacement[i] = "$&" -> <<matched>>
          [] replacement[i] = "$`" -> preceding
          [] replacement[i] = "$'" -> following
          [] OTHER -> <<replacement[i]>>])

\* content.replace(new RegExp(<placeholder>, 'g'), replacement)
ReplaceAll(content, placeholder, replacement) ==
    Concat([i \in 1..Len(content) |->
        IF content[i] = placeholder
        THEN GetSubstitution(replacement, placeholder,
                             SubSeq(content, 1, i - 1),
                             SubSeq(content, i + 1, Len(content)))
        ELSE <<content[i]>>])

\* path.split('/')
RECURSIVE Split(_)
Split(path) ==
    IF \A i \in 1..Len(path) : path[i] # "/" THEN <<path>>
    ELSE LET i == CHOOSE j \in 1..Len(path) :
                      path[j] = "/" /\ \A k \in 1..(j - 1) : path[k] # "/"
         IN  <<SubSeq(path, 1, i - 1)>> \o Split(SubSeq(path, i + 1, Len(path)))

\* array.pop(): the last element
Pop(array) == array[Len(array)]

\* projectName === '.' ? process.cwd().split('/').pop() : projectName
actualProjectName(name, processCwd) ==
    IF name = <<".">> THEN Pop(Split(processCwd)) ELSE name

\* the replacements map, in the order of its keys
Placeholders ==
    <<"{{PROJECT_NAME}}", "{{projectName}}", "{{DEFAULT_THEME}}", "{{DEFAULT_MODE}}">>

replacements(actualName) ==
    [i \in 1..Len(Placeholders) |->
        CASE Placeholders[i] = "{{PROJECT_NAME}}" -> actualName
          [] Placeholders[i] = "{{projectName}}" -> actualName
          [] Placeholders[i] = "{{DEFAULT_THEME}}" -> <<"base">>
          [] Placeholders[i] = "{{DEFAULT_MODE}}" -> <<"light">>]

\* the for loop over Object.entries(replacements): one global replace per
\* placeholder, each applied to the result of the one before
RECURSIVE ApplyReplacements(_, _, _)
ApplyReplacements(content, values, i) ==
    IF i > Len(Placeholders) THEN content
    ELSE Bind(ReplaceAll(content, Placeholders[i], values[i]), LAMBDA replaced :
         ApplyReplacements(replaced, values, i + 1))

\* the content processTemplateFile writes for a source file's content
processTemplateFile(content, name, processCwd) ==
    Bind(replacements(actualProjectName(name, processCwd)), LAMBDA values :
    ApplyReplacements(content, values, 1))

----------------------------------------------------------------------------
(* The template tree walker: copyRecursive inside copyHelixTemplate.        *)
(*                                                                          *)
(* A file name is a text whose units are the occurrences of ".template" in  *)
(* it and the pieces between them.  A directory listing (readdirSync) is a  *)
(* sequence of entries in the order readdirSync returns them.  A path of    *)
(* the destination is the sequence of the names below the working           *)
(* directory, which is the path <<>>.  The destination is a function from   *)
(* the paths that exist to what is there.                                   *)

TemplateSuffix == ".template"
PackageJson == <<"package.json">>
PackageJsonTemplate == <<"package.json", TemplateSuffix>>

\* entries of a template directory
File(name, text) == [name |-> name, dir |-> FALSE, items |-> <<>>, text |-> text]
Dir(name, items) == [name |-> name, dir |-> TRUE, items |-> items, text |-> <<>>]

\* what is at a path of the destination
DirNode == [kind |-> "dir"]
TextFile(text) == [kind |-> "text", text |-> text]

\* existsSync(path)
ExistsSync(fs, path) == path = <<>> \/ path \in DOMAIN fs
\* path is a directory
IsDirectory(fs, path) == path = <<>> \/ (path \in DOMAIN fs /\ fs[path].kind = "dir")
\* the directory a path lies in
Parent(path) == SubSeq(path, 1, Len(path) - 1)

\* item.endsWith('.template')
EndsWithTemplate(item) == Len(item) > 0 /\ item[Len(item)] = TemplateSuffix

\* item.replace('.template', ''): the first occurrence is removed
StripTemplate(item) ==
    IF \A i \in 1..Len(item) : item[i] # TemplateSuffix THEN item
    ELSE LET i == CHOOSE j \in 1..Len(item) :
                      item[j] = TemplateSuffix
                      /\ \A k \in 1..(j - 1) : item[k] # TemplateSuffix
         IN  SubSeq(item, 1, i - 1) \o SubSeq(item, i + 1, Len(item))

\* a walker that skips no file name
Skipped_Nothing(walker, item) == FALSE

\* the file names at which copyRecursive returns from the directory it lists
Skipped(walker, item) ==
    \/ item = PackageJson
    \/ walker.script = "legacy" /\ item = PackageJsonTemplate

\* the state of a walk: the destination, the operations done so far, the
\* number of files read so far, and the messages of the error raised, if any
Raise(st, messages) == [st EXCEPT !.err = messages]
Raised(st) == st.err # <<>>

\* a mkdirSync(path) that is not guarded by the existsSync test
MakeDirectory_NoExistsTest(st, path) ==
    IF ExistsSync(st.fs, path) \/ ~IsDirectory(st.fs, Parent(path))
    THEN Raise(st, <<"Error copying template files">>)
    ELSE [st EXCEPT !.fs = Put(st.fs, path, DirNode),
                    !.ops = Append(st.ops, [op |-> "mkdir", path |-> path])]

\* if (!existsSync(destItem)) mkdirSync(destItem, {recursive: true})
MakeDirectory(st, path) ==
    IF ExistsSync(st.fs, path) THEN st
    ELSE IF ~IsDirectory(st.fs, Parent(path))
    THEN Raise(st, <<"Error copying template files">>)
    ELSE [st EXCEPT !.fs = Put(st.fs, path, DirNode),
                    !.ops = Append(st.ops, [op |-> "mkdir", path |-> path])]

\* writeFileSync / copyFileSync to a path: the path must lie in a directory
\* and must not be a directory; walker.failAt is the file whose read or
\* write fails
WriteFile(walker, st, op, path, node, messages) ==
    IF \/ st.files + 1 = walker.failAt
       \/ ~IsDirectory(st.fs, Parent(path))
       \/ (ExistsSync(st.fs, path) /\ IsDirectory(st.fs, path))
    THEN [Raise(st, messages) EXCEPT !.files = st.files + 1]
    ELSE [st EXCEPT !.fs = Put(st.fs, path, node),
                    !.files = st.files + 1,
                    !.ops = Append(st.ops, [op |-> op, path |-> path])]

\* the file branch of copyRecursive for an item that is not skipped
CopyItem(walker, st, item, destPath) ==
    IF EndsWithTemplate(item.name)
    THEN IF walker.script = "helix"
         THEN WriteFile(walker, st, "process",
                        Append(destPath, StripTemplate(item.name)),
                        TextFile(processTemplateFile(item.text, walker.name,
                                                     walker.cwd)),
                        <<"Error processing template file",
                          "Error copying template files">>)
         ELSE WriteFile(walker, st, "copy",
                        Append(destPath, StripTemplate(item.name)),
                        TextFile(item.text),
                        <<"Error copying template files">>)
    ELSE WriteFile(walker, st, "copy", Append(destPath, item.name),
                   TextFile(item.text), <<"Error copying template files">>)

\* a walk that goes on with the next entry after an error
RECURSIVE CopyLoop_Continue(_, _, _, _, _)
CopyLoop_Continue(walker, items, i, destPath, st) ==
    IF i > Len(items) THEN st
    ELSE LET item == items[i]
             destItem == Append(destPath, item.name)
         IN  IF item.dir
             THEN Bind(MakeDirectory(st, destItem), LAMBDA made :
                  Bind(CopyLoop_Continue(walker, item.items, 1, destItem, made),
                       LAMBDA after :
                  CopyLoop_Continue(walker, items, i + 1, destPath, after)))
             ELSE IF Skipped(walker, item.name) THEN st
             ELSE Bind(CopyItem(walker, st, item, destPath), LAMBDA after :
                  CopyLoop_Continue(walker, items, i + 1, destPath, after))

\* a walk that takes the entries of a listing from the last to the first
RECURSIVE CopyLoop_Reverse(_, _, _, _, _)
CopyLoop_Reverse(walker, items, i, destPath, st) ==
    IF i > Len(items) \/ Raised(st) THEN st
    ELSE LET item == items[Len(items) + 1 - i]
             destItem == Append(destPath, item.name)
         IN  IF item.dir
             THEN Bind(MakeDirectory(st, destItem), LAMBDA made :
                  Bind(CopyLoop_Reverse(walker, item.items, 1, destItem, made),
                       LAMBDA after :
                  CopyLoop_Reverse(walker, items, i + 1, destPath, after)))
             ELSE IF Skipped(walker, item.name) THEN st
             ELSE Bind(CopyItem(walker, st, item, destPath), LAMBDA after :
                  CopyLoop_Reverse(walker, items, i + 1, destPath, after))

\* copyRecursive(sourcePath, destPath) from the i-th entry of the listing on;
\* a raised error ends every enclosing loop, and a skipped file name ends
\* the loop of its own directory (the handler returns)
RECURSIVE CopyLoop(_, _, _, _, _)
CopyLoop(walker, items, i, destPath, st) ==
    IF i > Len(items) \/ Raised(st) THEN st
    ELSE LET item == items[i]
             destItem == Append(destPath, item.name)
         IN  IF item.dir
             THEN Bind(MakeDirectory(st, destItem), LAMBDA made :
                  Bind(CopyLoop(walker, item.items, 1, destItem, made),
                       LAMBDA after :
                  CopyLoop(walker, items, i + 1, destPath, after)))
             ELSE IF Skipped(walker, item.name) THEN st
             ELSE Bind(CopyItem(walker, st, item, destPath), LAMBDA after :
                  CopyLoop(walker, items, i + 1, destPath, after))

\* a walk that puts the destination back as it was when an error is raised
copyRecursive_Rollback(walker, items, fs) ==
    Bind(CopyLoop(walker, items, 1, <<>>,
                  [fs |-> fs, ops |-> <<>>, files |-> 0, err |-> <<>>]),
         LAMBDA st : IF Raised(st) THEN [st EXCEPT !.fs = fs] ELSE st)

\* copyRecursive(templatePath, './') on a destination
copyRecursive(walker, items, fs) ==
    CopyLoop(walker, items, 1, <<>>, [fs |-> fs, ops |-> <<>>, files |-> 0, err |-> <<>>])

----------------------------------------------------------------------------
(* The files of the working directory.  pkgFile, envFile, srcUtils and dist *)
(* are ./package.json, ./.env, ./src/utils and ./dist of the process's      *)
(* working directory; after chdir into the new project directory they are   *)
(* the files of that directory.                                             *)

\* a manifest as a generator leaves it, and the packaged template manifest
GeneratedManifest ==
    Manifest(<<"commonjs">>, <<[react |-> "18.0.0"]>>, <<>>,
             <<[dev |-> "old"]>>, <<>>, <<>>)
HelixManifest ==
    Manifest(<<"module">>, <<[react |-> "17.0.0", express |-> "4.0.0"]>>, <<>>,
             <<[dev |-> "new", build |-> "tsc"]>>, <<>>, <<>>)

PackageFiles == {NoFile, MalformedFile, JsonFile(GeneratedManifest)}
TemplateFiles == {MalformedFile, JsonFile(HelixManifest)}

\* ./.env: absent, or its lines
NoEnv == [exists |-> FALSE, lines |-> <<>>]
EnvFiles ==
    {NoEnv,
     [exists |-> TRUE, lines |-> <<"PORT=3000">>],
     [exists |-> TRUE, lines |-> <<"VITE_API_URL=http://localhost:4000">>],
     \* a comment that names the variable and does not define it
     [exists |-> TRUE, lines |-> <<"# VITE_API_URL is set by the host">>]}

\* ./dist, dist/api/server.js, dist/index.html: a file exists only inside
\* an existing directory
DistStates ==
    {d \in [dir : BOOLEAN, api : BOOLEAN, web : BOOLEAN] :
        (d.api \/ d.web) => d.dir}
NoDist == [dir |-> FALSE, api |-> FALSE, web |-> FALSE]

----------------------------------------------------------------------------
(* Template trees, destinations and launch directories of the model *)

\* number of entries in the listing of the template's root directory
MaxEntries == 3

\* the units a template file's text is made of
TextUnits ==
    {"# ", "base", "{{PROJECT_NAME}}", "{{projectName}}", "{{DEFAULT_THEME}}",
     "{{DEFAULT_MODE}}"}

RECURSIVE TextsOfLen(_)
TextsOfLen(n) ==
    IF n = 0 THEN {<<>>}
    ELSE {Append(t, u) : t \in TextsOfLen(n - 1), u \in TextUnits}

Texts == UNION {TextsOfLen(n) : n \in 0..MaxText}

Guide == File(<<"guide.md">>, <<"{{DEFAULT_THEME}}">>)

\* the entries a template's root directory is listed from
EntryPool ==
    {File(PackageJson, <<"{}">>),
     File(PackageJsonTemplate, <<"{{PROJECT_NAME}}">>),
     File(<<"README.md", TemplateSuffix>>, <<"# ", "{{PROJECT_NAME}}">>),
     File(<<"index.html">>, <<"{{PROJECT_NAME}}">>),
     File(<<"env", TemplateSuffix, ".d.ts", TemplateSuffix>>, <<"{{DEFAULT_MODE}}">>),
     File(<<"docs", TemplateSuffix>>, <<"{{projectName}}">>),
     Dir(<<"docs">>, <<>>),
     Dir(<<"docs">>, <<Guide, File(PackageJson, <<"{}">>)>>),
     Dir(<<"docs">>, <<File(PackageJson, <<"{}">>), Guide>>),
     Dir(<<"docs">>, <<Dir(<<"api">>, <<Guide>>)>>)}

\* a directory lists every name once
DistinctNames(items) ==
    \A i, j \in 1..Len(items) : items[i].name = items[j].name => i = j

RECURSIVE ListingsOfLen(_)
ListingsOfLen(n) ==
    IF n = 0 THEN {<<>>}
    ELSE {Append(l, e) : l \in ListingsOfLen(n - 1), e \in EntryPool}

\* template trees that differ in structure
Listings ==
    {l \in UNION {ListingsOfLen(n) : n \in 0..MaxEntries} : DistinctNames(l)}

\* template trees that differ in the text of their one placeholder file
TextListings == {<<File(<<"README.md", TemplateSuffix>>, t)>> : t \in Texts}

\* the template trees of a run of the whole script
PackagedListings ==
    {<<Dir(<<"docs">>, <<Guide>>), File(<<"README.md", TemplateSuffix>>,
                                        <<"# ", "{{PROJECT_NAME}}">>)>>,
     <<File(<<"index.html">>, <<"{{PROJECT_NAME}}">>),
       File(PackageJsonTemplate, <<"{{PROJECT_NAME}}">>),
       File(<<"vite.config.ts">>, <<>>)>>}

\* what the working directory holds besides ./package.json
EmptyDir == <<>>
Destinations ==
    {EmptyDir,
     Put(EmptyDir, <<<<"docs">>>>, DirNode),
     Put(EmptyDir, <<<<"docs">>>>, TextFile(<<"notes">>))}

\* process.cwd() when the script starts
LaunchDirs ==
    {<<"/">>,
     <<"/", "srv", "/", "my-app">>,
     <<"/", "srv", "/", "cash", "$&", "carry">>,
     <<"/", "srv", "/", "a", "$$", "b">>,
     <<"/", "srv", "/", "$`", "x">>,
     <<"/", "srv", "/", "y", "$'">>,
     <<"/", "srv", "/", "{{DEFAULT_MODE}}">>,
     \* on Windows process.cwd() is a drive and names separated by "\"
     <<"C:", "\\", "srv", "\\", "my-app">>}

----------------------------------------------------------------------------
(* The state before the script runs *)

\* the files and directories the script can see or change
Files ==
    [projDir |-> projDir, pkgFile |-> pkgFile, envFile |-> envFile,
     srcUtils |-> srcUtils, dist |-> dist, overlay |-> overlay, tree |-> tree]

Init ==
    /\ script \in {"helix", "legacy"}
    /\ argv \in Argvs
    /\ pc = "main"
    /\ child = "none"
    /\ exitCode = -1
    /\ stdout = <<>>
    /\ stderr = <<>>
    /\ calls = <<>>
    /\ steps = <<>>
    /\ cwd = "launch"
    \* "." is the working directory itself
    /\ projDir \in (IF isCurrentDir THEN {TRUE} ELSE BOOLEAN)
    /\ pkgFile \in {NoFile, JsonFile(GeneratedManifest)}
    /\ pkgFile0 = pkgFile
    /\ tplFile \in TemplateFiles
    /\ envFile = NoEnv
    /\ srcUtils = "absent"
    /\ overlay = FALSE
    /\ dist \in DistStates
    /\ failed = {}
    \* the template tree and the launch directory matter to create only
    /\ tmpl \in (IF command = "create" THEN PackagedListings ELSE {<<>>})
    /\ launchDir \in (IF command = "create" /\ isCurrentDir
                      THEN {<<"/", "srv", "/", "my-app">>,
                            <<"/", "srv", "/", "cash", "$&", "carry">>}
                      ELSE {<<"/", "srv">>})
    /\ tree \in (IF command = "create" /\ isCurrentDir
                 THEN {EmptyDir, Put(EmptyDir, <<<<"docs">>>>, DirNode)}
                 ELSE {EmptyDir})
    /\ ops = <<>>
    /\ before = EmptyDir
    /\ fs0 = Files

----------------------------------------------------------------------------
(* Helpers of the actions *)

\* process.exit(code), or the script running off its end (code 0)
Exit(code) == pc' = "exited" /\ exitCode' = code

\* the catch block of the create command: an error thrown by a step
CreateFailed_Continue(step, messages) ==
    /\ stderr' = stderr \o messages \o <<"Error creating project">>
    /\ failed' = failed \cup {step}
    /\ pc' = "success"
    /\ UNCHANGED exitCode

CreateFailed(step, messages) ==
    /\ stderr' = stderr \o messages \o <<"Error creating project">>
    /\ failed' = failed \cup {step}
    /\ Exit(1)

\* the step that follows a step of create, by the order of the statements
NextStep_CopyBeforeInstall(step) ==
    IF script = "helix"
    THEN CASE step = "prepare" -> "copy"
           [] step = "copy"    -> "install"
           [] step = "install" -> "cleanup"
           [] step = "cleanup" -> "success"
    ELSE CASE step = "prepare" -> "uikit"
           [] step = "uikit"   -> "appkit"
           [] step = "appkit"  -> "merge"
           [] step = "merge"   -> "copy"
           [] step = "copy"    -> "install"
           [] step = "install" -> "env"
           [] step = "env"     -> "cleanup"
           [] step = "cleanup" -> "success"

NextStep(step) ==
    IF script = "helix"
    THEN CASE step = "prepare" -> "copy"
           [] step = "copy"    -> "install"
           [] step = "install" -> "cleanup"
           [] step = "cleanup" -> "success"
    ELSE CASE step = "prepare" -> "uikit"
           [] step = "uikit"   -> "appkit"
           [] step = "appkit"  -> "merge"
           [] step = "merge"   -> "install"
           [] step = "install" -> "copy"
           [] step = "copy"    -> "env"
           [] step = "env"     -> "cleanup"
           [] step = "cleanup" -> "success"

----------------------------------------------------------------------------
(* The top level of the script *)

\* if (!command): the usage text, exit 1
NoCommand ==
    /\ pc = "main"
    /\ command = ""
    /\ stdout' = Append(stdout, "Usage: helix create <project-name> [template]")
    /\ Exit(1)
    /\ UNCHANGED <<script, argv, fs0, tmpl, launchDir, tree, ops, before, failed, child, stderr, calls, steps, cwd, projDir,
                   pkgFile, pkgFile0, tplFile, envFile, srcUtils, overlay, dist>>

\* an unknown command answered with the usage text
UnknownCommand_PrintsUsage ==
    /\ pc = "main"
    /\ command # ""
    /\ command # "create"
    /\ ~(script = "helix" /\ command = "start")
    /\ stdout' = Append(stdout, "Usage: helix create <project-name> [template]")
    /\ Exit(1)
    /\ UNCHANGED <<script, argv, fs0, tmpl, launchDir, tree, ops, before, failed, child, stderr, calls, steps, cwd, projDir,
                   pkgFile, pkgFile0, tplFile, envFile, srcUtils, overlay, dist>>

\* the final else: a command that is neither create nor (in bin/helix.js) start
UnknownCommand ==
    /\ pc = "main"
    /\ command # ""
    /\ command # "create"
    /\ ~(script = "helix" /\ command = "start")
    /\ stderr' = Append(stderr, "Unknown command")
    /\ Exit(1)
    /\ UNCHANGED <<script, argv, fs0, tmpl, launchDir, tree, ops, before, failed, child, stdout, calls, steps, cwd, projDir,
                   pkgFile, pkgFile0, tplFile, envFile, srcUtils, overlay, dist>>

----------------------------------------------------------------------------
(* create: validation and the project directory *)

ValidationError_AnyTemplate(name, template) ==
    IF name = "" THEN "Please provide a project name"
    ELSE ""

\* the three checks of the arguments: the message of the first that fails,
\* "" if none does
ValidationError(name, template) ==
    IF name = "" THEN "Please provide a project name"
    ELSE IF template \notin validTemplates THEN "Invalid template"
    ELSE IF template \notin PackagedTemplates THEN "Template is not yet available"
    ELSE ""

\* the three checks of the arguments, each fatal
CreateValidate ==
    /\ pc = "main"
    /\ command = "create"
    /\ IF ValidationError(projectName, templateType) # ""
       THEN /\ stderr' = Append(stderr, ValidationError(projectName, templateType))
            /\ Exit(1)
       ELSE pc' = "prepare" /\ UNCHANGED <<stderr, exitCode>>
    /\ UNCHANGED <<script, argv, fs0, tmpl, launchDir, tree, ops, before, failed, child, stdout, calls, steps, cwd,
                   projDir, pkgFile, pkgFile0, tplFile, envFile, srcUtils,
                   overlay, dist>>

\* "." installs in place; otherwise the directory must not exist and is
\* created and entered.  mkdirSync may throw (mkdirOk = FALSE).
CreatePrepare ==
    /\ pc = "prepare"
    /\ IF isCurrentDir
       THEN /\ stdout' = stdout \o <<"Installing Helix in current directory">>
                           \o (IF pkgFile.kind # "absent"
                               THEN <<"Found existing package.json">>
                               ELSE <<>>)
            /\ pc' = NextStep("prepare")
            /\ UNCHANGED <<stderr, exitCode, cwd, projDir, pkgFile, pkgFile0,
                           envFile, srcUtils, dist, failed, tree>>
       ELSE /\ stdout' = Append(stdout, "Creating Helix project")
            /\ IF projDir
               THEN /\ stderr' = Append(stderr, "Directory already exists")
                    /\ Exit(1)
                    /\ UNCHANGED <<cwd, projDir, pkgFile, pkgFile0, envFile,
                                   srcUtils, dist, failed, tree>>
               ELSE \E mkdirOk \in BOOLEAN :
                      IF mkdirOk
                      THEN /\ projDir' = TRUE
                           /\ cwd' = "project"
                           \* the new directory is empty
                           /\ pkgFile' = NoFile
                           /\ tree' = EmptyDir
                           /\ UNCHANGED pkgFile0
                           /\ envFile' = NoEnv
                           /\ srcUtils' = "absent"
                           /\ dist' = NoDist
                           /\ pc' = NextStep("prepare")
                           /\ UNCHANGED <<stderr, exitCode, failed>>
                      ELSE /\ stderr' = Append(stderr, "Error creating project directory")
                           /\ failed' = failed \cup {"mkdir"}
                           /\ Exit(1)
                           /\ UNCHANGED <<cwd, projDir, pkgFile, pkgFile0,
                                          envFile, srcUtils, dist, tree>>
    /\ UNCHANGED <<script, argv, fs0, tmpl, launchDir, ops, before, child, calls, steps, tplFile, overlay>>

----------------------------------------------------------------------------
(* create: the external generators (part_011 only) *)

UIKitCommand == "npx @voilajsx/uikit@latest create . --fbca --theme base"
AppKitCommand == "npx @voilajsx/appkit@latest generate app"

\* execSync(cmd): the command is started and the script waits for it
Exec(step, cmd, message) ==
    /\ child = "none"
    /\ stdout' = Append(stdout, message)
    /\ calls' = Append(calls, cmd)
    /\ steps' = Append(steps, step)
    /\ child' = cmd

SetupFrontend ==
    /\ pc = "uikit"
    /\ Exec("uikit", UIKitCommand, "Setting up frontend (UIKit)")
    /\ UNCHANGED <<script, argv, fs0, tmpl, launchDir, tree, ops, before, failed, pc, exitCode, stderr, cwd, projDir, pkgFile,
                   pkgFile0, tplFile, envFile, srcUtils, overlay, dist>>

\* the frontend generator exits: with status 0 it has left a package.json
\* and possibly src/utils; with another status execSync throws
FrontendExits ==
    /\ pc = "uikit"
    /\ child = UIKitCommand
    /\ child' = "none"
    /\ \E ok \in BOOLEAN :
         IF ok
         THEN /\ pkgFile' \in PackageFiles
              /\ srcUtils' \in {"absent", "empty", "nonempty"}
              /\ pc' = NextStep("uikit")
              /\ UNCHANGED <<stderr, exitCode, failed>>
         ELSE /\ CreateFailed("uikit", <<>>)
              /\ UNCHANGED <<pkgFile, srcUtils>>
    /\ UNCHANGED <<script, argv, fs0, tmpl, launchDir, tree, ops, before, stdout, calls, steps, cwd, projDir, pkgFile0,
                   tplFile, envFile, overlay, dist>>

SetupBackend ==
    /\ pc = "appkit"
    /\ Exec("appkit", AppKitCommand, "Setting up backend (AppKit)")
    /\ UNCHANGED <<script, argv, fs0, tmpl, launchDir, tree, ops, before, failed, pc, exitCode, stderr, cwd, projDir, pkgFile,
                   pkgFile0, tplFile, envFile, srcUtils, overlay, dist>>

\* the backend generator exits: with status 0 it has left a .env
BackendExits ==
    /\ pc = "appkit"
    /\ child = AppKitCommand
    /\ child' = "none"
    /\ \E ok \in BOOLEAN :
         IF ok
         THEN /\ envFile' \in EnvFiles
              /\ pc' = NextStep("appkit")
              /\ UNCHANGED <<stderr, exitCode, failed>>
         ELSE /\ CreateFailed("appkit", <<>>)
              /\ UNCHANGED envFile
    /\ UNCHANGED <<script, argv, fs0, tmpl, launchDir, tree, ops, before, stdout, calls, steps, cwd, projDir, pkgFile,
                   pkgFile0, tplFile, srcUtils, overlay, dist>>

----------------------------------------------------------------------------
(* create: the manifest merge (part_011 only) *)

\* a merge whose catch block reports the error and does not throw it again
MergeHelixPackageJson_Swallow ==
    /\ pc = "merge"
    /\ stdout' = Append(stdout, "Configuring fullstack integration")
    /\ steps' = Append(steps, "merge")
    /\ pkgFile0' = pkgFile
    /\ IF Parses(pkgFile) /\ Parses(tplFile)
       THEN /\ pkgFile' = JsonFile(MergedPackage(pkgFile.value, tplFile.value))
            /\ pc' = NextStep("merge")
            /\ UNCHANGED <<stderr, exitCode, failed>>
       ELSE /\ stderr' = Append(stderr, "Error configuring fullstack integration")
            /\ failed' = failed \cup {"merge"}
            /\ pc' = NextStep("merge")
            /\ UNCHANGED <<pkgFile, exitCode>>
    /\ UNCHANGED <<script, argv, fs0, tmpl, launchDir, tree, ops, before, child, calls, cwd, projDir, tplFile, envFile,
                   srcUtils, overlay, dist>>

\* await mergeHelixPackageJson(verbose): both manifests are parsed, the
\* merged object is written to ./package.json; a parse or read error is
\* reported and thrown again
MergeHelixPackageJson ==
    /\ pc = "merge"
    /\ stdout' = Append(stdout, "Configuring fullstack integration")
    /\ steps' = Append(steps, "merge")
    /\ pkgFile0' = pkgFile
    /\ IF Parses(pkgFile) /\ Parses(tplFile)
       THEN /\ pkgFile' = JsonFile(MergedPackage(pkgFile.value, tplFile.value))
            /\ pc' = NextStep("merge")
            /\ UNCHANGED <<stderr, exitCode, failed>>
       ELSE /\ CreateFailed("merge", <<"Error configuring fullstack integration">>)
            /\ UNCHANGED pkgFile
    /\ UNCHANGED <<script, argv, fs0, tmpl, launchDir, tree, ops, before, child, calls, cwd, projDir, tplFile, envFile,
                   srcUtils, overlay, dist>>

----------------------------------------------------------------------------
(* create: npm install, the template copy, .env, cleanup, success *)

NpmInstallCommand == "npm install"

NpmInstall ==
    /\ pc = "install"
    /\ Exec("install", NpmInstallCommand, "Installing dependencies")
    /\ UNCHANGED <<script, argv, fs0, tmpl, launchDir, tree, ops, before, failed, pc, exitCode, stderr, cwd, projDir, pkgFile,
                   pkgFile0, tplFile, envFile, srcUtils, overlay, dist>>

\* npm install exits and is run again when it has failed
InstallExits_Retry ==
    /\ pc = "install"
    /\ child = NpmInstallCommand
    /\ child' = "none"
    /\ \E ok \in BOOLEAN :
         IF ok
         THEN pc' = NextStep("install") /\ UNCHANGED <<stderr, exitCode, failed>>
         ELSE pc' = "install" /\ UNCHANGED <<stderr, exitCode, failed>>
    /\ UNCHANGED <<script, argv, fs0, tmpl, launchDir, tree, ops, before, stdout, calls, steps, cwd, projDir, pkgFile,
                   pkgFile0, tplFile, envFile, srcUtils, overlay, dist>>

\* npm install exits; a non-zero status makes execSync throw
InstallExits ==
    /\ pc = "install"
    /\ child = NpmInstallCommand
    /\ child' = "none"
    /\ \E ok \in BOOLEAN :
         IF ok
         THEN pc' = NextStep("install") /\ UNCHANGED <<stderr, exitCode, failed>>
         ELSE CreateFailed("install", <<>>)
    /\ UNCHANGED <<script, argv, fs0, tmpl, launchDir, tree, ops, before, stdout, calls, steps, cwd, projDir, pkgFile,
                   pkgFile0, tplFile, envFile, srcUtils, overlay, dist>>

\* process.cwd()
ProcessCwd ==
    IF cwd = "launch" THEN launchDir
    ELSE IF launchDir = <<"/">> THEN <<"/", projectName>>
    ELSE launchDir \o <<(IF Head(launchDir) = "/" THEN "/" ELSE "\\"), projectName>>

\* the working directory as the walker sees it: ./package.json and the rest
WorkDir ==
    IF pkgFile.kind = "absent" THEN tree ELSE Put(tree, <<PackageJson>>, pkgFile)

\* ./package.json of a destination, and the rest of it
ManifestOf(fs) ==
    IF <<PackageJson>> \in DOMAIN fs THEN fs[<<PackageJson>>] ELSE NoFile
RestOf(fs) == [path \in (DOMAIN fs) \ {<<PackageJson>>} |-> fs[path]]

\* the walk of the template tree over the working directory in which the
\* failAt-th file cannot be read or written (none if failAt = 0)
Walk(failAt) ==
    copyRecursive([script |-> script, name |-> <<projectName>>,
                   cwd |-> ProcessCwd, failAt |-> failAt], tmpl, WorkDir)

\* copyHelixTemplate(templateType, verbose): the template tree is copied
\* into the working directory; an error of the walk is reported and thrown
\* again.  What the walk wrote before the error stays.  Besides the modelled
\* tree the template may carry src/utils.
CopyHelixTemplate ==
    /\ pc = "copy"
    /\ steps' = Append(steps, "copy")
    /\ before' = WorkDir
    /\ IF templateType \notin PackagedTemplates
       THEN \* the template directory is missing: reported, no error thrown
            /\ stderr' = Append(stderr, "Template not found")
            /\ pc' = NextStep("copy")
            /\ UNCHANGED <<stdout, exitCode, pkgFile, srcUtils, overlay, failed,
                           tree, ops>>
       ELSE \E failAt \in 0..Walk(0).files :
              \E walk \in {Walk(failAt)} :
                  /\ tree' = RestOf(walk.fs)
                  /\ pkgFile' = ManifestOf(walk.fs)
                  /\ ops' = walk.ops
                  /\ IF ~Raised(walk)
                     THEN /\ overlay' = TRUE
                          /\ srcUtils' \in {srcUtils, "nonempty"} \cup
                                (IF srcUtils = "absent" THEN {"empty"} ELSE {})
                          /\ stdout' = Append(stdout, "Applied Helix template files")
                          /\ pc' = NextStep("copy")
                          /\ UNCHANGED <<stderr, exitCode, failed>>
                     ELSE /\ CreateFailed("copy", walk.err)
                          /\ UNCHANGED <<stdout, srcUtils, overlay>>
    /\ UNCHANGED <<script, argv, fs0, tmpl, launchDir, child, calls, cwd, projDir,
                   pkgFile0, tplFile, envFile, dist>>

\* envContent.includes('VITE_API_URL'), line by line
MentionsViteApiUrl(line) ==
    line \in {"VITE_API_URL=http://localhost:3000",
              "VITE_API_URL=http://localhost:4000",
              "# VITE_API_URL is set by the host"}

\* what addViteApiUrl() makes of ./.env when its write succeeds
InjectViteApiUrl(env) ==
    IF env.exists /\ ~\E i \in 1..Len(env.lines) : MentionsViteApiUrl(env.lines[i])
    THEN [env EXCEPT !.lines = @ \o <<"# Frontend API Configuration",
                                      "VITE_API_URL=http://localhost:3000">>]
    ELSE env

\* addViteApiUrl(): appends the variable to an existing .env that does not
\* mention it; an error of the write (writeOk = FALSE) is reported and ignored
AddViteApiUrl ==
    /\ pc = "env"
    /\ steps' = Append(steps, "env")
    /\ IF envFile.exists /\ ~\E i \in 1..Len(envFile.lines) :
                                MentionsViteApiUrl(envFile.lines[i])
       THEN \E writeOk \in BOOLEAN :
              IF writeOk
              THEN /\ envFile' = InjectViteApiUrl(envFile)
                   /\ UNCHANGED <<stderr, failed>>
              ELSE /\ stderr' = Append(stderr, "Could not add VITE_API_URL to .env")
                   /\ failed' = failed \cup {"env"}
                   /\ UNCHANGED envFile
       ELSE UNCHANGED <<envFile, stderr, failed>>
    /\ pc' = NextStep("env")
    /\ UNCHANGED <<script, argv, fs0, tmpl, launchDir, tree, ops, before, child, exitCode, stdout, calls, cwd, projDir,
                   pkgFile, pkgFile0, tplFile, srcUtils, overlay, dist>>

RmdirCommand == "rmdir src/utils"

\* a cleanup that removes src/utils whatever it holds
Cleanup_RemovesNonEmpty ==
    /\ pc = "cleanup"
    /\ IF templateType = "basicapp"
       THEN /\ steps' = Append(steps, "cleanup")
            /\ IF srcUtils # "absent"
               THEN /\ calls' = Append(calls, RmdirCommand)
                    /\ \E rmdirOk \in BOOLEAN :
                         IF rmdirOk
                         THEN srcUtils' = "absent" /\ UNCHANGED failed
                         ELSE failed' = failed \cup {"cleanup"} /\ UNCHANGED srcUtils
               ELSE UNCHANGED <<calls, srcUtils, failed>>
       ELSE UNCHANGED <<steps, calls, srcUtils, failed>>
    /\ pc' = NextStep("cleanup")
    /\ UNCHANGED <<script, argv, fs0, tmpl, launchDir, tree, ops, before, child, exitCode, stdout, stderr, cwd, projDir,
                   pkgFile, pkgFile0, tplFile, envFile, overlay, dist>>

\* the cleanup of basicapp: an empty ./src/utils is removed with rmdir;
\* an error of rmdir (rmdirOk = FALSE) is ignored
Cleanup ==
    /\ pc = "cleanup"
    /\ IF templateType = "basicapp"
       THEN /\ steps' = Append(steps, "cleanup")
            /\ IF srcUtils = "empty"
               THEN /\ calls' = Append(calls, RmdirCommand)
                    /\ \E rmdirOk \in BOOLEAN :
                         IF rmdirOk
                         THEN srcUtils' = "absent" /\ UNCHANGED failed
                         ELSE failed' = failed \cup {"cleanup"} /\ UNCHANGED srcUtils
               ELSE UNCHANGED <<calls, srcUtils, failed>>
       ELSE UNCHANGED <<steps, calls, srcUtils, failed>>
    /\ pc' = NextStep("cleanup")
    /\ UNCHANGED <<script, argv, fs0, tmpl, launchDir, tree, ops, before, child, exitCode, stdout, stderr, cwd, projDir,
                   pkgFile, pkgFile0, tplFile, envFile, overlay, dist>>

\* the success message followed by exit code 1
ReportSuccess_ExitsWithOne ==
    /\ pc = "success"
    /\ stdout' = Append(stdout, IF isCurrentDir
                                THEN "Helix installed successfully!"
                                ELSE "Helix project created successfully!")
    /\ Exit(1)
    /\ UNCHANGED <<script, argv, fs0, tmpl, launchDir, tree, ops, before, failed, child, stderr, calls, steps, cwd, projDir,
                   pkgFile, pkgFile0, tplFile, envFile, srcUtils, overlay, dist>>

\* the success message; the script ends and the process exits with code 0
ReportSuccess ==
    /\ pc = "success"
    /\ stdout' = Append(stdout, IF isCurrentDir
                                THEN "Helix installed successfully!"
                                ELSE "Helix project created successfully!")
    /\ Exit(0)
    /\ UNCHANGED <<script, argv, fs0, tmpl, launchDir, tree, ops, before, failed, child, stderr, calls, steps, cwd, projDir,
                   pkgFile, pkgFile0, tplFile, envFile, srcUtils, overlay, dist>>

----------------------------------------------------------------------------
(* start (bin/helix.js only): the Build Artifact Guard *)

StartApiCommand == "npm run start:api"

\* the message of the guard for the first missing build output
GuardHint_ApiAsBuild(d) ==
    IF ~d.dir THEN "Run: npm run build"
    ELSE IF ~d.api THEN "Run: npm run build"
    ELSE IF ~d.web THEN "Run: npm run build:web"
    ELSE ""

GuardHint(d) ==
    IF ~d.dir THEN "Run: npm run build"
    ELSE IF ~d.api THEN "Run: npm run build:api"
    ELSE IF ~d.web THEN "Run: npm run build:web"
    ELSE ""

GuardError(d) ==
    IF ~d.dir THEN "Build not found! Please run \"npm run build\" first."
    ELSE IF ~d.api THEN "API build not found! Backend server missing."
    ELSE IF ~d.web THEN "Web build not found! Frontend build missing."
    ELSE ""

GuardPasses_NoApiCheck(d) == d.dir /\ d.web

\* existsSync of ./dist, dist/api/server.js and dist/index.html, in this order
GuardPasses(d) == d.dir /\ d.api /\ d.web

\* the three existence checks, then execSync('npm run start:api')
StartGuard ==
    /\ pc = "main"
    /\ script = "helix"
    /\ command = "start"
    /\ IF GuardPasses(dist)
       THEN /\ stdout' = stdout \o <<"Checking build files",
                                     "Build files found. Starting production server">>
            /\ calls' = Append(calls, StartApiCommand)
            /\ child' = StartApiCommand
            /\ pc' = "serve"
            /\ UNCHANGED <<stderr, exitCode>>
       ELSE /\ stdout' = stdout \o <<"Checking build files", GuardHint(dist)>>
            /\ stderr' = Append(stderr, GuardError(dist))
            /\ Exit(1)
            /\ UNCHANGED <<calls, child>>
    /\ UNCHANGED <<script, argv, fs0, tmpl, launchDir, tree, ops, before, failed, steps, cwd, projDir, pkgFile, pkgFile0,
                   tplFile, envFile, srcUtils, overlay, dist>>

\* the start script exits: status 0 ends the script (code 0), another
\* status makes execSync throw and the catch block exits with 1
ServerExits ==
    /\ pc = "serve"
    /\ child = StartApiCommand
    /\ child' = "none"
    /\ \E ok \in BOOLEAN :
         IF ok
         THEN Exit(0) /\ UNCHANGED <<stderr, failed>>
         ELSE /\ stderr' = Append(stderr, "Error starting server")
              /\ failed' = failed \cup {"serve"}
              /\ Exit(1)
    /\ UNCHANGED <<script, argv, fs0, tmpl, launchDir, tree, ops, before, stdout, calls, steps, cwd, projDir, pkgFile,
                   pkgFile0, tplFile, envFile, srcUtils, overlay, dist>>

----------------------------------------------------------------------------
(* The CLI *)

Next ==
    \/ NoCommand
    \/ UnknownCommand
    \/ CreateValidate
    \/ CreatePrepare
    \/ SetupFrontend
    \/ FrontendExits
    \/ SetupBackend
    \/ BackendExits
    \/ MergeHelixPackageJson
    \/ NpmInstall
    \/ InstallExits
    \/ CopyHelixTemplate
    \/ AddViteApiUrl
    \/ Cleanup
    \/ ReportSuccess
    \/ StartGuard
    \/ ServerExits

Spec == Init /\ [][Next]_vars

\* The create command alone, for the claims about its termination: the
\* template tree, the launch directory and ./dist, which do not decide
\* whether and how a run ends, are fixed.
InitCreate ==
    /\ Init
    /\ command = "create"
    /\ tmpl = <<Dir(<<"docs">>, <<Guide>>),
                File(<<"README.md", TemplateSuffix>>, <<"# ", "{{PROJECT_NAME}}">>)>>
    /\ launchDir = <<"/", "srv", "/", "my-app">>
    /\ tree = EmptyDir
    /\ dist = NoDist

NextCreate ==
    \/ CreateValidate
    \/ CreatePrepare
    \/ SetupFrontend
    \/ FrontendExits
    \/ SetupBackend
    \/ BackendExits
    \/ MergeHelixPackageJson
    \/ NpmInstall
    \/ InstallExits
    \/ CopyHelixTemplate
    \/ AddViteApiUrl
    \/ Cleanup
    \/ ReportSuccess

\* the script takes its next step, and a child process that execSync waits
\* for exits
SpecCreate == InitCreate /\ [][NextCreate]_vars /\ WF_vars(NextCreate)

----------------------------------------------------------------------------
(* The manifest merge on its own: part_011 has run the generators, which   *)
(* left the destination manifest, and is about to merge.                   *)

InitMerge ==
    /\ script = "legacy"
    /\ argv = <<"create", "my-app">>
    /\ pc = "merge"
    /\ child = "none"
    /\ exitCode = -1
    /\ stdout = <<>>
    /\ stderr = <<>>
    /\ calls = <<UIKitCommand, AppKitCommand>>
    /\ steps = <<"uikit", "appkit">>
    /\ cwd = "project"
    /\ projDir = TRUE
    /\ pkgFile \in {JsonFile(m) : m \in DestManifests}
    /\ pkgFile0 = pkgFile
    /\ tplFile \in {JsonFile(m) : m \in TemplateManifests}
    /\ envFile = NoEnv
    /\ srcUtils = "absent"
    /\ overlay = FALSE
    /\ dist = NoDist
    /\ failed = {}
    /\ tmpl = <<>>
    /\ launchDir = <<"/", "srv">>
    /\ tree = EmptyDir
    /\ ops = <<>>
    /\ before = EmptyDir
    /\ fs0 = [Files EXCEPT !.projDir = FALSE, !.pkgFile = NoFile]

NextMerge == MergeHelixPackageJson

SpecMerge == InitMerge /\ [][NextMerge]_vars

----------------------------------------------------------------------------
(* The template walk as a function of the template tree, the destination   *)
(* and the project name: the script is about to call copyHelixTemplate.     *)

\* what create has printed when it reaches copyHelixTemplate
PrintedBeforeCopy ==
    (IF isCurrentDir
     THEN <<"Installing Helix in current directory">>
          \o (IF fs0.pkgFile.kind # "absent"
              THEN <<"Found existing package.json">> ELSE <<>>)
     ELSE <<"Creating Helix project">>)
    \o (IF script = "legacy"
        THEN <<"Setting up frontend (UIKit)", "Setting up backend (AppKit)",
               "Configuring fullstack integration", "Installing dependencies">>
        ELSE <<>>)

InitWalk ==
    /\ script \in {"helix", "legacy"}
    /\ argv \in {<<"create", "my-app">>, <<"create", ".">>}
    /\ pc = "copy"
    /\ child = "none"
    /\ exitCode = -1
    /\ stderr = <<>>
    /\ calls = (IF script = "legacy"
                THEN <<UIKitCommand, AppKitCommand, NpmInstallCommand>> ELSE <<>>)
    /\ steps = (IF script = "legacy"
                THEN <<"uikit", "appkit", "merge", "install">> ELSE <<>>)
    /\ cwd = (IF isCurrentDir THEN "launch" ELSE "project")
    /\ projDir = TRUE
    /\ tplFile = JsonFile(HelixManifest)
    \* part_011 has merged the generated manifest; bin/helix.js finds what
    \* the working directory held, which is nothing in a new directory
    /\ pkgFile0 \in (IF script = "legacy" THEN {JsonFile(GeneratedManifest)}
                     ELSE IF isCurrentDir THEN {NoFile, JsonFile(GeneratedManifest)}
                     ELSE {NoFile})
    /\ pkgFile = (IF script = "legacy"
                  THEN JsonFile(MergedPackage(GeneratedManifest, HelixManifest))
                  ELSE pkgFile0)
    /\ envFile = NoEnv
    /\ srcUtils = "absent"
    /\ overlay = FALSE
    /\ dist = NoDist
    /\ failed = {}
    /\ \/ /\ tmpl \in Listings
          /\ launchDir = <<"/", "srv", "/", "my-app">>
          /\ tree \in (IF script = "helix" /\ ~isCurrentDir
                       THEN {EmptyDir} ELSE Destinations)
       \/ /\ tmpl \in TextListings
          /\ launchDir \in LaunchDirs
          /\ tree = EmptyDir
    /\ ops = <<>>
    /\ before = EmptyDir
    /\ fs0 = [projDir |-> isCurrentDir,
              pkgFile |-> (IF isCurrentDir THEN pkgFile0 ELSE NoFile),
              envFile |-> NoEnv, srcUtils |-> "absent", dist |-> NoDist,
              overlay |-> FALSE,
              tree |-> (IF script = "helix" \/ ~isCurrentDir THEN tree ELSE EmptyDir)]
    /\ stdout = PrintedBeforeCopy

NextWalk == CopyHelixTemplate

SpecWalk == InitWalk /\ [][NextWalk]_vars

----------------------------------------------------------------------------
(* Properties of the manifest merge, checked under SpecMerge *)

\* the merge has just run and has written ./package.json
MergeDone ==
    /\ pc = "install"
    /\ steps # <<>>
    /\ steps[Len(steps)] = "merge"

\* the destination manifest the merge read, the template manifest, and the
\* manifest the merge wrote
Destination == pkgFile0.value
Template == tplFile.value
Merged == pkgFile.value

DependencyFields == {"dependencies", "devDependencies"}

\* the keys of a map field of a manifest; none if the field is absent
KeysOf(manifest, field) == DOMAIN OrEmpty(manifest, field)

\* C1: for every key in both the destination's and the template's
\* dependency map (dependencies and devDependencies), the merged manifest
\* holds the destination's version string, whatever that string is.
C1_DestinationVersionKept ==
    MergeDone =>
        \A f \in DependencyFields :
            \A dep \in KeysOf(Destination, f) \cap KeysOf(Template, f) :
                /\ dep \in KeysOf(Merged, f)
                /\ Merged[f][dep] = Destination[f][dep]

\* C2: for every script key of the template, the merged scripts map holds
\* exactly the template's command, whatever the destination held.
C2_ScriptSupersession ==
    MergeDone =>
        \A scr \in KeysOf(Template, "scripts") :
            /\ scr \in KeysOf(Merged, "scripts")
            /\ Merged["scripts"][scr] = Template["scripts"][scr]

\* C2 witness: the merge has replaced a command the destination held.
C2_Witness ==
    /\ MergeDone
    /\ \E scr \in KeysOf(Template, "scripts") \cap KeysOf(Destination, "scripts") :
          /\ Destination["scripts"][scr] = "old"
          /\ Merged["scripts"][scr] = "new"

\* C3: every key that only the template's dependency map has is in the
\* merged map with the template's version, also when the destination has
\* no such map at all.
C3_MissingKeyInserted ==
    MergeDone =>
        \A f \in DependencyFields :
            /\ f \in DOMAIN Merged
            /\ \A dep \in KeysOf(Template, f) \ KeysOf(Destination, f) :
                  /\ dep \in KeysOf(Merged, f)
                  /\ Merged[f][dep] = Template[f][dep]

\* C3 witness: the destination had no dependencies field and no
\* devDependencies field, and the merge has inserted a key into each.
C3_Witness ==
    /\ MergeDone
    /\ \A f \in DependencyFields :
          /\ f \notin DOMAIN Destination
          /\ KeysOf(Template, f) # {}
          /\ KeysOf(Merged, f) = KeysOf(Template, f)

\* C4: after the merge the type is "module" if it was absent or "commonjs";
\* every other type value is left as it was.
C4_ModuleTypeNormalized ==
    MergeDone =>
        Merged["type"] =
            IF "type" \notin DOMAIN Destination \/ Destination["type"] = "commonjs"
            THEN "module"
            ELSE Destination["type"]

\* C5: every (key, version) pair of the destination's dependency maps is in
\* the merged map unchanged, and the merged key set is the union of the
\* destination's and the template's key sets.
C5_NoDependencyRemovedOrChanged ==
    MergeDone =>
        \A f \in DependencyFields :
            /\ \A dep \in KeysOf(Destination, f) :
                  /\ dep \in KeysOf(Merged, f)
                  /\ Merged[f][dep] = Destination[f][dep]
            /\ KeysOf(Merged, f) = KeysOf(Destination, f) \cup KeysOf(Template, f)

----------------------------------------------------------------------------
(* Properties of the start command, checked under Spec *)

\* bin/helix.js runs its start command
StartRun == script = "helix" /\ command = "start"

\* the production start script has been invoked
StartScriptInvoked == Includes(calls, StartApiCommand)

\* C6: the start command invokes npm run start:api if and only if ./dist,
\* dist/api/server.js and dist/index.html all exist; when
\* dist/api/server.js is missing the start is rejected with exit code 1
\* and the start script is never invoked.
C6_BuildArtifactGuard ==
    StartRun =>
        /\ pc # "main" => (StartScriptInvoked <=> (dist.dir /\ dist.api /\ dist.web))
        /\ ~dist.api => ~StartScriptInvoked
        /\ (~dist.api /\ pc # "main") => (pc = "exited" /\ exitCode = 1)

\* C6 witness: ./dist and the frontend index exist, the backend entrypoint
\* does not, and the start has been rejected.
C6_Witness ==
    /\ StartRun
    /\ dist.dir /\ dist.web /\ ~dist.api
    /\ pc = "exited"
    /\ exitCode = 1
    /\ calls = <<>>

\* the guard has rejected the start
GuardRejected == StartRun /\ pc = "exited" /\ ~StartScriptInvoked

\* C7: a rejection names the missing build output and the command that
\* rebuilds it: npm run build for ./dist, npm run build:api for the backend
\* entrypoint, npm run build:web for the frontend index (the first missing
\* one in this order); the guard starts no build, and no other command.
C7_GuardNamesRebuildCommand ==
    GuardRejected =>
        /\ ~dist.dir =>
              /\ stderr = <<"Build not found! Please run \"npm run build\" first.">>
              /\ stdout[Len(stdout)] = "Run: npm run build"
        /\ (dist.dir /\ ~dist.api) =>
              /\ stderr = <<"API build not found! Backend server missing.">>
              /\ stdout[Len(stdout)] = "Run: npm run build:api"
        /\ (dist.dir /\ dist.api /\ ~dist.web) =>
              /\ stderr = <<"Web build not found! Frontend build missing.">>
              /\ stdout[Len(stdout)] = "Run: npm run build:web"
        /\ calls = <<>>
        /\ exitCode = 1

\* C7 witness: only the backend entrypoint is missing and the rejection
\* names npm run build:api.
C7_Witness ==
    /\ GuardRejected
    /\ dist.dir /\ dist.web /\ ~dist.api
    /\ Includes(stdout, "Run: npm run build:api")

----------------------------------------------------------------------------
(* Properties of the create command, checked under Spec *)

RECURSIVE IsPrefix(_, _)
IsPrefix(s, t) ==
    \/ s = <<>>
    \/ /\ t # <<>>
       /\ Head(s) = Head(t)
       /\ IsPrefix(Tail(s), Tail(t))

\* position i of steps comes after some earlier position holding step
Preceded(i, step) == \E j \in 1..(i - 1) : steps[j] = step

CreateOrder ==
    (IF script = "helix"
     THEN <<"copy", "install">>
     ELSE <<"uikit", "appkit", "merge", "install", "copy", "env">>)
    \o (IF templateType = "basicapp" THEN <<"cleanup">> ELSE <<>>)

SuccessPrinted ==
    \/ Includes(stdout, "Helix installed successfully!")
    \/ Includes(stdout, "Helix project created successfully!")

\* the step has failed, the run has stopped at it with exit code 1 and
\* without the success message
AbortedAt(step) ==
    /\ pc = "exited"
    /\ exitCode = 1
    /\ steps[Len(steps)] = step
    /\ ~SuccessPrinted

\* C9 as stated: a failure of a generator, the merge, npm install, the
\* template walk or the cleanup aborts the run.
C9_AsStated ==
    \A step \in failed \cap {"uikit", "appkit", "merge", "install", "copy", "cleanup"} :
        AbortedAt(step)

\* C9, amended: a failure of a generator, the merge, npm install or the
\* template walk aborts the run: no later step runs, the success message
\* is not printed, the exit code is 1.  A failure of the cleanup pass (or
\* of the .env step) is ignored: the run goes on and ends with code 0.
C9_FailureAborts ==
    /\ \A step \in failed \cap {"uikit", "appkit", "merge", "install", "copy"} :
          AbortedAt(step)
    /\ ("cleanup" \in failed /\ pc = "exited") => (exitCode = 0 /\ SuccessPrinted)
    /\ (failed = {"env"} /\ pc = "exited") => (exitCode = 0 /\ SuccessPrinted)

\* C9 witness: npm install has failed and the run has ended with code 1.
C9_Witness ==
    /\ "install" \in failed
    /\ AbortedAt("install")

\* create is given arguments that fail validation
InvalidCreate ==
    /\ command = "create"
    /\ \/ projectName = ""
       \/ templateType \notin {"basicapp", "welcomeapp", "userapp", "todoapp"}
       \/ templateType \notin PackagedTemplates
       \/ (projectName # "." /\ fs0.projDir)

\* C10: a validation error of create (no project name, unknown template,
\* template not packaged, existing destination other than ".") is reported
\* on stderr and exits with 1; the project directory is not created, the
\* working directory not changed, no command run and no file written.
C10_ValidationMutatesNothing ==
    InvalidCreate =>
        /\ pc \in {"main", "prepare", "exited"}
        /\ pc = "exited" => (exitCode = 1 /\ Len(stderr) = 1)
        /\ cwd = "launch"
        /\ child = "none"
        /\ calls = <<>>
        /\ steps = <<>>
        /\ Files = fs0

\* C10 witness: the destination my-app exists and create has exited with 1.
C10_Witness ==
    /\ InvalidCreate
    /\ projectName = "my-app"
    /\ templateType = "basicapp"
    /\ fs0.projDir
    /\ pc = "exited"
    /\ exitCode = 1

----------------------------------------------------------------------------
(* Claims about the template walk *)

\* copyHelixTemplate has run (to its end or to an error)
WalkDone == Includes(steps, "copy") /\ templateType \in PackagedTemplates

\* the walk has raised an error
WalkFailed == WalkDone /\ "copy" \in failed

\* the last name of a path
BaseName(path) == path[Len(path)]

\* the operations of the walk that wrote the given path
Wrote(path) == {i \in 1..Len(ops) : ops[i].path = path /\ ops[i].op # "mkdir"}

RECURSIVE Covered(_, _, _)
Covered(items, destPath, fs) ==
    \A i \in 1..Len(items) :
        LET item == items[i]
        IN  IF item.dir
            THEN /\ Append(destPath, item.name) \in DOMAIN fs
                 /\ IsDirectory(fs, Append(destPath, item.name))
                 /\ Covered(item.items, Append(destPath, item.name), fs)
            ELSE \/ Skipped([script |-> script], item.name)
                 \/ /\ Append(destPath, StripTemplate(item.name)) \in DOMAIN fs
                    /\ ~IsDirectory(fs, Append(destPath, StripTemplate(item.name)))

\* C12: after a walk that raises no error, every directory under the
\* template root exists at the destination and every file other than the
\* excluded manifest has a destination file, wherever the excluded file
\* sits in the listing of its directory.
C12_EveryEntryVisited ==
    (WalkDone /\ ~WalkFailed) => Covered(tmpl, <<>>, WorkDir)

\* C13: a second walk of the same template tree over the destination a
\* first, successful walk has left raises no error, creates no directory
\* (they all exist) and leaves the destination as the first walk left it.
C13_SecondWalkChangesNothing ==
    (WalkDone /\ ~WalkFailed) =>
        /\ ~Raised(Walk(0))
        /\ \A i \in 1..Len(Walk(0).ops) : Walk(0).ops[i].op # "mkdir"
        /\ Walk(0).fs = WorkDir

\* C13 witness: a walk has succeeded that created a directory and a
\* directory inside it and wrote a file there.
C13_Witness ==
    /\ WalkDone /\ ~WalkFailed
    /\ \E i, j, k \in 1..Len(ops) :
          /\ i < j /\ j < k
          /\ ops[i] = [op |-> "mkdir", path |-> <<<<"docs">>>>]
          /\ ops[j] = [op |-> "mkdir", path |-> <<<<"docs">>, <<"api">>>>]
          /\ ops[k].op = "copy" /\ Parent(ops[k].path) = ops[j].path

----------------------------------------------------------------------------
(* Claims about the placeholder substitution *)

\* the text in which every occurrence of every placeholder stands replaced
\* by its value, unit for unit, and every other unit is as it was
ExactReplacement(content, values) ==
    Concat([i \in 1..Len(content) |->
        IF \E k \in 1..Len(Placeholders) : Placeholders[k] = content[i]
        THEN values[CHOOSE k \in 1..Len(Placeholders) : Placeholders[k] = content[i]]
        ELSE <<content[i]>>])

\* the placeholder files in the root of the template tree that bin/helix.js
\* has processed, each into a path nothing else was written to
Processed ==
    {i \in 1..Len(tmpl) :
        /\ ~tmpl[i].dir
        /\ EndsWithTemplate(tmpl[i].name)
        /\ Cardinality(Wrote(<<StripTemplate(tmpl[i].name)>>)) = 1
        /\ \A j \in Wrote(<<StripTemplate(tmpl[i].name)>>) : ops[j].op = "process"}

\* the content written for the i-th entry of the root of the template tree
Output(i) == WorkDir[<<StripTemplate(tmpl[i].name)>>]

\* C14: the output of processTemplateFile is the source text with every
\* occurrence of each of the four tokens replaced by the token's value, in
\* place, and with all other text unaltered; no token is left.
C14_ExactReplacement ==
    WalkDone =>
        \A i \in Processed :
            Output(i) = TextFile(ExactReplacement(tmpl[i].text,
                replacements(actualProjectName(<<projectName>>, ProcessCwd))))

\* the i-th entry of the root of the template tree is a file that a walk
\* without error has come to and has not skipped
Visited(i) ==
    /\ WalkDone /\ ~WalkFailed
    /\ ~tmpl[i].dir
    /\ \A j \in 1..i : tmpl[j].dir \/ ~Skipped([script |-> script], tmpl[j].name)

\* a file name without its last unit
WithoutLast(item) == SubSeq(item, 1, Len(item) - 1)

\* C15: a file whose name ends in ".template" is written under its name
\* with exactly that trailing suffix removed; every other file is copied
\* under its own name with its text as it is.
C15_SuffixStripped ==
    \A i \in 1..Len(tmpl) :
        Visited(i) =>
            IF EndsWithTemplate(tmpl[i].name)
            THEN Wrote(<<WithoutLast(tmpl[i].name)>>) # {}
            ELSE /\ Wrote(<<tmpl[i].name>>) # {}
                 /\ \A j \in Wrote(<<tmpl[i].name>>) : ops[j].op = "copy"
                 /\ Cardinality(Wrote(<<tmpl[i].name>>)) = 1
                       => WorkDir[<<tmpl[i].name>>] = TextFile(tmpl[i].text)

\* the last path segment of a working directory: what follows the last
\* separator, which is "/" in a POSIX path (a path that starts with "/")
\* and "\" in a Windows path (a path that starts with a drive)
Separator(path) == IF Head(path) = "/" THEN "/" ELSE "\\"
LastSegment(path) ==
    LET seps == {i \in 1..Len(path) : path[i] = Separator(path)}
        last == CHOOSE i \in seps : \A j \in seps : j <= i
    IN  IF seps = {} THEN path ELSE SubSeq(path, last + 1, Len(path))

\* the project name the claim describes
EffectiveName ==
    IF projectName = "." THEN LastSegment(ProcessCwd) ELSE <<projectName>>

\* C16: when the project identifier is ".", the name substituted for the
\* project-name tokens is the last path segment of the working directory;
\* for any other identifier it is the identifier itself.
C16_EffectiveProjectName ==
    WalkDone =>
        \A i \in Processed :
            Output(i) = TextFile(ApplyReplacements(tmpl[i].text,
                                     replacements(EffectiveName), 1))

----------------------------------------------------------------------------
(* Claims about the collaborators, the command line and fatal errors *)

\* C17: in a run no external command (frontend generator, backend
\* generator, npm install, the cleanup's rmdir, the production start
\* script) is handed to execSync more than once, also after it has failed.
C17_NoRetries ==
    \A i, j \in 1..Len(calls) : calls[i] = calls[j] => i = j

\* C17 witness: the frontend generator has failed; it was invoked once and
\* the run has ended.
C17_Witness ==
    /\ pc = "exited"
    /\ "uikit" \in failed
    /\ calls = <<UIKitCommand>>

UsageText == "Usage: helix create <project-name> [template]"

\* the script was started without a command, or with one it does not know
NoKnownCommand ==
    /\ command # "create"
    /\ ~(script = "helix" /\ command = "start")

\* the run has changed no file and has invoked no collaborator
NothingTouched == Files = fs0 /\ calls = <<>> /\ ops = <<>>

\* C18 as stated: without arguments and with an unknown command alike the
\* usage text goes to stdout and the exit code is 1, nothing is touched.
C18_AsStated ==
    (NoKnownCommand /\ pc = "exited") =>
        /\ Includes(stdout, UsageText)
        /\ exitCode = 1
        /\ NothingTouched

\* C18, amended: without arguments the usage text goes to stdout; with an
\* unknown command only the error "Unknown command: <command>" goes to
\* stderr and no usage text is printed.  In both cases the exit code is 1,
\* no file is touched and no collaborator is invoked.
C18_UsageOrUnknownCommand ==
    /\ NoKnownCommand => NothingTouched
    /\ (NoKnownCommand /\ pc = "exited") =>
          /\ exitCode = 1
          /\ IF command = ""
             THEN stdout = <<UsageText>> /\ stderr = <<>>
             ELSE stdout = <<>> /\ stderr = <<"Unknown command">>

\* C18 witness: the earlier script, which has no start command, was started
\* with "start" and has ended.
C18_Witness ==
    /\ script = "legacy"
    /\ command = "start"
    /\ pc = "exited"
    /\ stderr = <<"Unknown command">>

\* mergeHelixPackageJson has run on a manifest that is not well-formed JSON
MergeOnMalformed ==
    /\ Includes(steps, "merge")
    /\ pkgFile0 = MalformedFile \/ tplFile = MalformedFile

\* C19: if ./package.json or the template manifest is malformed JSON, the
\* merge raises the error, ./package.json is not rewritten, npm install and
\* every later step are not executed, and the run ends with exit code 1
\* and without the success message.
C19_ParseErrorIsFatal ==
    MergeOnMalformed =>
        /\ "merge" \in failed
        /\ Includes(stderr, "Error configuring fullstack integration")
        /\ pkgFile = pkgFile0
        /\ ~Includes(calls, NpmInstallCommand)
        /\ steps = <<"uikit", "appkit", "merge">>
        /\ ops = <<>> /\ ~overlay
        /\ AbortedAt("merge")

\* C19 witness: the destination manifest was well-formed and the template
\* manifest malformed, and the run has ended at the merge.
C19_Witness ==
    /\ Includes(steps, "merge")
    /\ pkgFile0 = JsonFile(GeneratedManifest)
    /\ tplFile = MalformedFile
    /\ pc = "exited"

\* processTemplateFile has failed to read its source or write its destination
SubstitutionFailed ==
    WalkDone /\ Includes(stderr, "Error processing template file")

\* the operations of the walk had no file failed
CompleteWalk ==
    copyRecursive([script |-> script, name |-> <<projectName>>,
                   cwd |-> ProcessCwd, failAt |-> 0], tmpl, before)

\* C20: when processTemplateFile cannot read or write, it raises the error
\* again, the walker processes none of the remaining entries (what it did
\* is a beginning of the complete walk, and the destination holds
\* that and no more), and the run ends with exit code 1 and without the
\* success message.
C20_SubstitutionFailureIsFatal ==
    SubstitutionFailed =>
        /\ script = "helix"
        /\ stderr = <<"Error processing template file",
                      "Error copying template files", "Error creating project">>
        /\ "copy" \in failed
        /\ AbortedAt("copy")
        /\ IsPrefix(ops, CompleteWalk.ops)
        /\ DOMAIN WorkDir = DOMAIN before \cup {ops[i].path : i \in 1..Len(ops)}
        /\ ~overlay

\* C20 witness: the walk has created a directory and copied a file, then a
\* placeholder file could not be processed, and the run has ended; the
\* complete walk would have written another file after it.
C20_Witness ==
    /\ SubstitutionFailed
    /\ pc = "exited"
    /\ Len(ops) = 2
    /\ Len(CompleteWalk.ops) = 4

----------------------------------------------------------------------------
(* Claims about the .env step *)

\* the create run has ended with success
CreateSucceeded ==
    command = "create" /\ pc = "exited" /\ exitCode = 0 /\ SuccessPrinted

\* the line defines the variable
DefinesViteApiUrl(line) ==
    line \in {"VITE_API_URL=http://localhost:3000",
              "VITE_API_URL=http://localhost:4000"}

Defines(env) == \E i \in 1..Len(env.lines) : DefinesViteApiUrl(env.lines[i])

\* C21: after a successful create run in which ./.env exists, .env defines
\* VITE_API_URL: a file that did not define it has the definition appended
\* once, a file that defined it is unchanged, and running the injection
\* again changes nothing.
C21_ViteApiUrlInjected ==
    (CreateSucceeded /\ envFile.exists) =>
        /\ Defines(envFile)
        /\ \E e \in EnvFiles :
              /\ e.exists
              /\ IF Defines(e) THEN envFile = e
                 ELSE envFile = [e EXCEPT !.lines =
                                    @ \o <<"# Frontend API Configuration",
                                           "VITE_API_URL=http://localhost:3000">>]
        /\ InjectViteApiUrl(envFile) = envFile

----------------------------------------------------------------------------
(* Further claims about the manifest merge *)

\* how often an item occurs in an array
Count(array, item) == Cardinality({i \in 1..Len(array) : array[i] = item})

\* C22: after the merge the keywords hold "helix" exactly once if the tag
\* was absent or present once before; the keywords the destination had keep
\* their order, the tag is appended at the end only when it was absent, and
\* a missing keywords list becomes the list that holds only the tag.
C22_KeywordsSetLike ==
    MergeDone =>
        IF "keywords" \notin DOMAIN Destination
        THEN Merged.keywords = <<"helix">>
        ELSE /\ Count(Destination.keywords, "helix") = 0 =>
                    Merged.keywords = Append(Destination.keywords, "helix")
             /\ Count(Destination.keywords, "helix") > 0 =>
                    Merged.keywords = Destination.keywords
             /\ Count(Destination.keywords, "helix") <= 1 =>
                    Count(Merged.keywords, "helix") = 1

\* C22 witness: the destination listed one keyword, not the tag, and the
\* merged manifest lists that keyword and then the tag.
C22_Witness ==
    /\ MergeDone
    /\ "keywords" \in DOMAIN Destination
    /\ Destination.keywords = <<"react">>
    /\ Merged.keywords = <<"react", "helix">>

----------------------------------------------------------------------------
(* Claims about the command line *)

\* the arguments without the flag --verbose
RECURSIVE WithoutVerbose(_)
WithoutVerbose(args) ==
    IF args = <<>> THEN <<>>
    ELSE IF Head(args) = "--verbose" THEN WithoutVerbose(Tail(args))
    ELSE <<Head(args)>> \o WithoutVerbose(Tail(args))

\* process.argv[3] and process.argv[4] || 'basicapp' of an argument list
ProjectNameOf(args) == IF Len(args) >= 2 THEN args[2] ELSE ""
TemplateTypeOf(args) ==
    IF Len(args) >= 3 /\ args[3] # "" THEN args[3] ELSE "basicapp"

\* C23: a create run with --verbose selects the same project and the same
\* template, and passes or fails validation alike, as the run with the
\* same arguments without the flag; what the script does depends on its
\* arguments through these values only.
C23_VerboseOnlyLogs ==
    (command = "create" /\ pc = "exited") =>
        /\ projectName = ProjectNameOf(WithoutVerbose(argv))
        /\ templateType = TemplateTypeOf(WithoutVerbose(argv))
        /\ Includes(stderr, "Invalid template") =>
              TemplateTypeOf(WithoutVerbose(argv)) \notin validTemplates

----------------------------------------------------------------------------
(* Termination of create *)

\* the conditions the claim names: a validation failure or a missing
\* template, a destination directory that exists already, a collaborator
\* that fails
ValidationFailed == ValidationError(projectName, templateType) # ""
DirectoryConflict == ~isCurrentDir /\ fs0.projDir
CollaboratorFailed == failed \cap {"uikit", "appkit", "install"} # {}

\* C24: every create run whose collaborators terminate reaches a terminal
\* state, which is either Success (success message printed, exit code 0) or
\* Failure (exit code 1, no success message); a validation failure, a
\* missing template, a destination directory conflict and a collaborator
\* failure each end in exit code 1, and exit code 0 comes only from a run
\* in which none of them occurred.
C24_TerminalStates ==
    /\ (command = "create") ~> (pc = "exited")
    /\ [](command = "create" /\ pc = "exited" =>
            /\ exitCode \in {0, 1}
            /\ exitCode = 0 <=> SuccessPrinted
            /\ (ValidationFailed \/ DirectoryConflict \/ CollaboratorFailed)
                  => exitCode = 1)
    /\ [][pc = "exited" => UNCHANGED <<pc, exitCode, stdout>>]_vars

\* C24 witness: a create run of bin/helix.js in which nothing failed has
\* ended with the success message and exit code 0.
C24_Witness ==
    /\ script = "helix"
    /\ CreateSucceeded
    /\ failed = {}
    /\ steps = <<"copy", "install", "cleanup">>

----------------------------------------------------------------------------
(* Literal insertion of the replacement values *)

\* where the text that stands for the p-th unit of a source text begins in
\* the output, if every token before it is replaced by its value as it is
OffsetOf(content, values, p) ==
    Len(ExactReplacement(SubSeq(content, 1, p - 1), values))

\* C25: replacement values are inserted literally: for every effective
\* project name, also one that holds "$" sequences or the text of another
\* token, the output of processTemplateFile holds, in the place of each
\* token occurrence of the source text, exactly the token's value, with no
\* interpretation and no further substitution of the inserted value.
C25_LiteralInsertion ==
    WalkDone =>
        \A i \in Processed :
            LET values == replacements(actualProjectName(<<projectName>>, ProcessCwd))
                content == tmpl[i].text
            IN  \A p \in 1..Len(content) : \A k \in 1..Len(Placeholders) :
                    content[p] = Placeholders[k] =>
                        SubSeq(Output(i).text,
                               OffsetOf(content, values, p) + 1,
                               OffsetOf(content, values, p) + Len(values[k]))
                            = values[k]

----------------------------------------------------------------------------
(* The order of a walk *)

\* the name under which an entry of a listing arrives at the destination
Target(entry) ==
    IF ~entry.dir /\ EndsWithTemplate(entry.name)
    THEN StripTemplate(entry.name) ELSE entry.name

\* the places of the template tree a path of the destination can come
\* from: the indices, listing by listing, of the entries that lead to it
RECURSIVE Positions(_, _)
Positions(items, path) ==
    IF path = <<>> THEN {<<>>}
    ELSE UNION {{<<a>> \o rest : rest \in Positions(items[a].items, Tail(path))} :
                   a \in {b \in 1..Len(items) :
                            /\ Target(items[b]) = Head(path)
                            /\ Len(path) > 1 => items[b].dir}}

\* place p comes before place q in a walk that takes a directory before
\* its contents and siblings in the order of the listing
ComesBefore(p, q) ==
    \/ Len(p) <= Len(q) /\ SubSeq(q, 1, Len(p)) = p
    \/ \E n \in 1..Len(p) :
          /\ n <= Len(q)
          /\ SubSeq(p, 1, n - 1) = SubSeq(q, 1, n - 1)
          /\ p[n] < q[n]

\* the directory exists when the j-th operation of the walk is done: it is
\* the working directory, was there beforehand, or was made earlier
ExistsAt(j, dir) ==
    \/ dir = <<>>
    \/ dir \in DOMAIN before /\ before[dir].kind = "dir"
    \/ \E m \in 1..(j - 1) : ops[m].op = "mkdir" /\ ops[m].path = dir

\* C26: at every point of a walk each file written at the destination is
\* written into a directory that exists at that moment, made earlier in
\* the walk or there beforehand, and the operations follow the listing
\* order of the siblings, a directory before its contents.
C26_DirectoriesFirst ==
    WalkDone =>
        /\ \A j \in 1..Len(ops) : ExistsAt(j, Parent(ops[j].path))
        /\ \A j, k \in 1..Len(ops) :
              j < k => \E p \in Positions(tmpl, ops[j].path),
                          q \in Positions(tmpl, ops[k].path) : ComesBefore(p, q)

\* C26 witness: a walk has made a directory and written a file into it, and
\* has gone on to write a sibling of the directory.
C26_Witness ==
    /\ WalkDone
    /\ \E j, k, m \in 1..Len(ops) :
          /\ j < k /\ k < m
          /\ ops[j].op = "mkdir"
          /\ ops[k].op # "mkdir" /\ Parent(ops[k].path) = ops[j].path
          /\ ops[m].op # "mkdir" /\ Len(ops[m].path) = 1

----------------------------------------------------------------------------
(* No rollback on failure *)

\* a create run has ended in failure inside the project directory it made
FailedInProject ==
    command = "create" /\ pc = "exited" /\ exitCode = 1 /\ cwd = "project"

\* C27: when a create run fails after the project directory was created,
\* nothing is deleted: the step that ends the run with exit code 1 removes
\* no path that was there before it, and at the exit the project directory
\* and every path the template copy has written are present.
C27_NoRollback ==
    /\ [](FailedInProject =>
            /\ projDir
            /\ \A j \in 1..Len(ops) : ExistsSync(WorkDir, ops[j].path))
    /\ [][(command = "create" /\ cwd = "project" /\ pc # "exited"
             /\ pc' = "exited" /\ exitCode' = 1) =>
            /\ projDir'
            /\ \A path \in DOMAIN WorkDir : ExistsSync(WorkDir', path)
            /\ envFile.exists => envFile'.exists
            /\ srcUtils # "absent" => srcUtils' # "absent"]_vars

\* C27 witness: the template copy of bin/helix.js has failed in a new
\* project directory after it wrote at least one path, and the run is over.
C27_Witness ==
    /\ FailedInProject
    /\ script = "helix"
    /\ "copy" \in failed
    /\ Len(ops) > 0

----------------------------------------------------------------------------
(* Idempotence and frame of the manifest merge *)

\* C28: the merge is idempotent: merging the template into the manifest
\* the merge has written yields that manifest again, with no change of a
\* dependency, a script, the type, the description or the keywords.
C28_MergeIdempotent ==
    MergeDone => MergedPackage(Merged, Template) = Merged

\* C28 witness: the merge has added a dependency and the keyword to the
\* destination manifest, so the first application was not the identity.
C28_Witness ==
    /\ MergeDone
    /\ KeysOf(Merged, "dependencies") # KeysOf(Destination, "dependencies")
    /\ ~Includes(OrEmpty(Destination, "keywords"), "helix")
    /\ MergedPackage(Destination, Template) # Destination

\* the fields mergeHelixPackageJson may change
MergeFields ==
    {"type", "dependencies", "devDependencies", "scripts", "description", "keywords"}

\* C29: the merge changes only type, dependencies, devDependencies,
\* scripts, description and keywords: name, version and every other field
\* of the destination are as they were and no other field appears; the
\* description is the fixed fullstack description afterwards; a destination
\* script whose key the template's scripts do not have keeps its command.
C29_MergeFrame ==
    MergeDone =>
        /\ \A f \in (DOMAIN Destination) \ MergeFields :
              f \in DOMAIN Merged /\ Merged[f] = Destination[f]
        /\ DOMAIN Merged \subseteq (DOMAIN Destination) \cup MergeFields
        /\ {"name", "version"} \subseteq DOMAIN Merged
        /\ Merged["description"] = FullstackDescription
        /\ \A scr \in KeysOf(Destination, "scripts") \ KeysOf(Template, "scripts") :
              /\ scr \in KeysOf(Merged, "scripts")
              /\ Merged["scripts"][scr] = Destination["scripts"][scr]

\* C29 witness: the destination had a description of its own and a script
\* the template does not have, and the template has overridden another of
\* its scripts.
C29_Witness ==
    /\ MergeDone
    /\ "description" \in DOMAIN Destination
    /\ Destination["description"] # FullstackDescription
    /\ KeysOf(Destination, "scripts") \ KeysOf(Template, "scripts") # {}
    /\ \E scr \in KeysOf(Destination, "scripts") \cap KeysOf(Template, "scripts") :
          Destination["scripts"][scr] # Merged["scripts"][scr]

----------------------------------------------------------------------------
(* The cleanup pass *)

\* the position of a step in the steps done so far; 0 if it was not done
StepIndex(step) ==
    IF Includes(steps, step)
    THEN CHOOSE i \in 1..Len(steps) : steps[i] = step ELSE 0

\* C30: the cleanup pass runs only for the basicapp template and only
\* after the template copy and the install; it removes ./src/utils only
\* when that directory exists and is empty; a src/utils that is not empty
\* and every other path are never removed by it.
C30_CleanupSafety ==
    /\ [](Includes(steps, "cleanup") =>
            /\ templateType = "basicapp"
            /\ 0 < StepIndex("copy") /\ StepIndex("copy") < StepIndex("cleanup")
            /\ 0 < StepIndex("install") /\ StepIndex("install") < StepIndex("cleanup")
            /\ failed \cap {"copy", "install"} = {})
    /\ [](Includes(calls, RmdirCommand) => Includes(steps, "cleanup"))
    /\ [][pc = "cleanup" =>
            /\ srcUtils' # srcUtils =>
                  /\ Includes(steps', "cleanup")
                  /\ srcUtils = "empty" /\ srcUtils' = "absent"
            /\ calls' # calls => srcUtils = "empty" /\ calls' = Append(calls, RmdirCommand)
            /\ UNCHANGED <<projDir, tree, pkgFile, envFile, dist, cwd>>]_vars

\* C30 witness: the cleanup pass of a basicapp run has removed an empty
\* src/utils.
C30_Witness ==
    /\ Includes(steps, "cleanup")
    /\ Includes(calls, RmdirCommand)
    /\ srcUtils = "absent"
    /\ "cleanup" \notin failed

====
